---- MODULE Spec2Model ----
(***************************************************************************)
(* The in-memory repository (MemStorage, server/storage.ts) and the        *)
(* authorization-gated REST routes built on it (server/routes.ts).         *)
(*                                                                         *)
(* A stored record is a function from field names to values, as a JS       *)
(* object is; a collection is a function from map keys to records, as a    *)
(* JS Map is.  One action is one HTTP request handled from the middleware  *)
(* to the response; SpecLoop instead runs the handlers await by await on   *)
(* the event loop, to show that their steps do not interleave.             *)
(***************************************************************************)
EXTENDS Integers, Sequences, FiniteSets, TLC

\* ---------------------------------------------------------------- bounds
\* Records created (all kinds together) in one run of the routes (Spec).
MaxCreates == 1
\* Users created in one run of the user routes (SpecUsers).
MaxUsers == 2
\* Records created (all kinds together) in one run of the repository (SpecRepo).
MaxCalls == 2

\* ------------------------------------------------------------ the state
VARIABLES
    usersData, eventsData, studiesData, postsData,
    forumTopicsData, forumRepliesData, siteSettingsData,
    userIdCounter, eventIdCounter, studyIdCounter, postIdCounter,
    forumTopicIdCounter, forumReplyIdCounter, siteSettingIdCounter,
    req,        \* the request answered last: method, kind, principal, :id
    res,        \* the response sent: status and JSON body
    returned,   \* history: per kind, the ids returned by create, in call order
    removed,    \* history: per kind, the ids for which delete returned true
    loop        \* the event loop: tasks waiting for a turn, and continuations
                \* of awaits on settled promises (the microtask queue)

maps == <<usersData, eventsData, studiesData, postsData,
          forumTopicsData, forumRepliesData, siteSettingsData>>
counters == <<userIdCounter, eventIdCounter, studyIdCounter, postIdCounter,
              forumTopicIdCounter, forumReplyIdCounter, siteSettingIdCounter>>
repo == <<maps, counters>>
hist == <<returned, removed>>
vars == <<maps, counters, req, res, returned, removed, loop>>

Kinds == {"user", "event", "study", "post", "forumTopic", "forumReply", "siteSetting"}
OwnedKinds == {"event", "study", "post", "forumTopic", "forumReply"}

\* The collection and the id counter of a kind.
Data(k) ==
    CASE k = "user" -> usersData
      [] k = "event" -> eventsData
      [] k = "study" -> studiesData
      [] k = "post" -> postsData
      [] k = "forumTopic" -> forumTopicsData
      [] k = "forumReply" -> forumRepliesData
      [] k = "siteSetting" -> siteSettingsData

Counter(k) ==
    CASE k = "user" -> userIdCounter
      [] k = "event" -> eventIdCounter
      [] k = "study" -> studyIdCounter
      [] k = "post" -> postIdCounter
      [] k = "forumTopic" -> forumTopicIdCounter
      [] k = "forumReply" -> forumReplyIdCounter
      [] k = "siteSetting" -> siteSettingIdCounter

\* The store after the collection of kind k became d and its counter c.
SetRepo(k, d, c) ==
    /\ usersData' = IF k = "user" THEN d ELSE usersData
    /\ eventsData' = IF k = "event" THEN d ELSE eventsData
    /\ studiesData' = IF k = "study" THEN d ELSE studiesData
    /\ postsData' = IF k = "post" THEN d ELSE postsData
    /\ forumTopicsData' = IF k = "forumTopic" THEN d ELSE forumTopicsData
    /\ forumRepliesData' = IF k = "forumReply" THEN d ELSE forumRepliesData
    /\ siteSettingsData' = IF k = "siteSetting" THEN d ELSE siteSettingsData
    /\ userIdCounter' = IF k = "user" THEN c ELSE userIdCounter
    /\ eventIdCounter' = IF k = "event" THEN c ELSE eventIdCounter
    /\ studyIdCounter' = IF k = "study" THEN c ELSE studyIdCounter
    /\ postIdCounter' = IF k = "post" THEN c ELSE postIdCounter
    /\ forumTopicIdCounter' = IF k = "forumTopic" THEN c ELSE forumTopicIdCounter
    /\ forumReplyIdCounter' = IF k = "forumReply" THEN c ELSE forumReplyIdCounter
    /\ siteSettingIdCounter' = IF k = "siteSetting" THEN c ELSE siteSettingIdCounter

\* ---------------------------------------------------- objects and maps
EmptyMap == [i \in {} |-> 0]
EmptyObject == [f \in {} |-> 0]

\* JS object spread { ...a, ...b }: the keys of both, b's value where b has the key.
Spread(a, b) ==
    [f \in (DOMAIN a) \cup (DOMAIN b) |-> IF f \in DOMAIN b THEN b[f] ELSE a[f]]

\* JS rest destructuring const { f, ...rest } = o: o without the keys in fs.
Omit(o, fs) == [f \in (DOMAIN o) \ fs |-> o[f]]

\* Map.prototype.has / set / delete.
MapHas(m, id) == id \in DOMAIN m
MapSet(m, id, r) == [i \in (DOMAIN m) \cup {id} |-> IF i = id THEN r ELSE m[i]]
MapDelete(m, id) == [i \in (DOMAIN m) \ {id} |-> m[i]]

\* Array.from(m.values()): a Map iterates in insertion order, and keys are
\* only ever inserted in increasing order (the counter), so this is key order.
RECURSIVE ValuesFrom(_, _)
ValuesFrom(m, ids) ==
    IF ids = {} THEN <<>>
    ELSE LET lo == CHOOSE i \in ids : \A j \in ids : i <= j
         IN <<m[lo]>> \o ValuesFrom(m, ids \ {lo})
MapValues(m) == ValuesFrom(m, DOMAIN m)

\* The timestamp field a create stamps.
StampField(k) == IF k = "siteSetting" THEN "updatedAt" ELSE "createdAt"
\* The owner field of an owned kind.
OwnerField(k) == IF k = "event" THEN "createdBy" ELSE "authorId"

\* ------------------------------------------------ MemStorage operations
\* Each returns the new collection, the new counter and the method's result.

\* A create that derives the id from the size of the map.
NextIdFromSize(data, counter) == Cardinality(DOMAIN data) + 1

\* const id = this.xIdCounter++
NextId(data, counter) == counter

\* A create that lets the supplied fields override id and timestamp.
StorageCreateClientWins(k, data, counter, fields, now) ==
    LET id == NextId(data, counter)
        record == Spread((StampField(k) :> now) @@ ("id" :> id), fields)
    IN [data |-> MapSet(data, id, record), counter |-> counter + 1,
        found |-> TRUE, result |-> record]

\* A create that leaves the counter as it was.
StorageCreateNoIncrement(k, data, counter, fields, now) ==
    LET id == NextId(data, counter)
        record == Spread(fields, (StampField(k) :> now) @@ ("id" :> id))
    IN [data |-> MapSet(data, id, record), counter |-> counter,
        found |-> TRUE, result |-> record]

\* create*: { ...data, id, createdAt: now } stored under id.
StorageCreate(k, data, counter, fields, now) ==
    LET id == NextId(data, counter)
        record == Spread(fields, (StampField(k) :> now) @@ ("id" :> id))
    IN [data |-> MapSet(data, id, record), counter |-> counter + 1,
        found |-> TRUE, result |-> record]

\* An update of a setting that leaves updatedAt as it was.
StorageUpdateNoStamp(k, data, id, fields, now) ==
    IF ~MapHas(data, id)
    THEN [data |-> data, found |-> FALSE, result |-> EmptyObject]
    ELSE LET updated == Spread(data[id], fields)
         IN [data |-> MapSet(data, id, updated), found |-> TRUE, result |-> updated]

\* An update that creates the record when the id is absent.
StorageUpdateUpsert(k, data, id, fields, now) ==
    LET existing == IF MapHas(data, id) THEN data[id] ELSE [id |-> id]
        updated == Spread(existing, fields)
    IN [data |-> MapSet(data, id, updated), found |-> TRUE, result |-> updated]

\* An update that stores the supplied fields in place of the record.
StorageUpdateReplace(k, data, id, fields, now) ==
    IF ~MapHas(data, id)
    THEN [data |-> data, found |-> FALSE, result |-> EmptyObject]
    ELSE [data |-> MapSet(data, id, fields), found |-> TRUE, result |-> fields]

\* update* of every kind but siteSetting: { ...existing, ...fields }.
StorageUpdate(k, data, id, fields, now) ==
    IF ~MapHas(data, id)
    THEN [data |-> data, found |-> FALSE, result |-> EmptyObject]
    ELSE LET merged == Spread(data[id], fields)
             updated == IF k = "siteSetting"
                        THEN Spread(merged, "updatedAt" :> now)
                        ELSE merged
         IN [data |-> MapSet(data, id, updated), found |-> TRUE, result |-> updated]

\* A delete that reports success whether or not the key was present.
StorageDeleteAlwaysTrue(data, id) ==
    [data |-> MapDelete(data, id), result |-> TRUE]

\* A delete that reports the removal and keeps the record.
StorageDeleteKeeps(data, id) == [data |-> data, result |-> MapHas(data, id)]

\* delete*: Map.delete, true exactly when the key was present.
StorageDelete(data, id) ==
    [data |-> MapDelete(data, id), result |-> MapHas(data, id)]

\* getUpcomingEvents(count = 5): the default of an omitted count.
UpcomingDefault == 5
\* The count argument: the query parameter when one was sent, else undefined.
NoCount == [given |-> FALSE, value |-> 0]
Count(n) == [given |-> TRUE, value |-> n]
Limit(count) == IF count.given THEN count.value ELSE UpcomingDefault

\* new Date(event.startTime) > now
IsUpcoming(event, now) == event.startTime > now
Filter(events, now) ==
    LET Test(event) == IsUpcoming(event, now) IN SelectSeq(events, Test)

\* A sort that leaves the array in map order.
Unsorted(events) == events

\* Array.prototype.sort by startTime: ascending and stable, so events with
\* equal startTime keep their map order.
RECURSIVE SortByStartTime(_)
SortByStartTime(events) ==
    IF events = <<>> THEN <<>>
    ELSE LET last == events[Len(events)]
             sorted == SortByStartTime(SubSeq(events, 1, Len(events) - 1))
             n == Cardinality({i \in DOMAIN sorted : sorted[i].startTime <= last.startTime})
         IN SubSeq(sorted, 1, n) \o <<last>> \o SubSeq(sorted, n + 1, Len(sorted))

\* Array.prototype.slice(0, end): a negative end counts from the end.
Slice(events, end) ==
    LET n == Len(events)
        stop == IF end < 0
                THEN (IF n + end < 0 THEN 0 ELSE n + end)
                ELSE (IF end < n THEN end ELSE n)
    IN SubSeq(events, 1, stop)

\* storage.getUpcomingEvents(count)
GetUpcomingEvents(data, count, now) ==
    Slice(SortByStartTime(Filter(MapValues(data), now)), Limit(count))

\* ------------------------------------------------------------ requests
\* The principal passport attaches to a request: req.isAuthenticated() and req.user.
NoUser == [authenticated |-> FALSE, id |-> 0, role |-> "none"]
Principal(i, r) == [authenticated |-> TRUE, id |-> i, role |-> r]
Requesters == {NoUser, Principal(1, "admin"), Principal(2, "member"), Principal(3, "member")}

\* The values "new Date()" takes.
Times == {1}

\* A missing property reads as undefined.
Undefined == "undefined"
Field(o, f) == IF f \in DOMAIN o THEN o[f] ELSE Undefined

\* The columns of an insert schema (createInsertSchema(table).omit({id, createdAt})),
\* all of them notNull without default.  "title" stands for the text columns
\* of the record that no handler reads.
InsertKeys(k) ==
    CASE k = "user" -> {"username", "password", "role"}
      [] k = "event" -> {"title", "startTime", "createdBy"}
      [] k = "forumReply" -> {"content", "topicId", "authorId"}
      [] k = "siteSetting" -> {"key", "value", "updatedBy"}
      [] OTHER -> {"title", "authorId"}

\* insertXSchema.parse(body): throws a ZodError when a required key is
\* missing, otherwise returns the body with unknown keys stripped.
ParseOk(k, body) == InsertKeys(k) \subseteq DOMAIN body
Parse(k, body) == [f \in InsertKeys(k) |-> body[f]]

\* ----------------------------------------------------------- responses
Message(m) == [message |-> m]
Label(k) ==
    CASE k = "event" -> "Event" [] k = "study" -> "Study" [] k = "post" -> "Post"
      [] k = "forumTopic" -> "Forum topic" [] k = "forumReply" -> "Forum reply"
      [] k = "user" -> "User" [] k = "siteSetting" -> "Setting"

\* res.status(s).json(b), answering the request (method, kind, user, id).
Reply(method, k, user, id, s, b) ==
    /\ req' = [method |-> method, kind |-> k, user |-> user, id |-> id]
    /\ res' = [status |-> s, body |-> b]
\* The same at the end of a handler that ran in one piece: it took nothing
\* from the event loop and leaves nothing on it.
Respond(method, k, user, id, s, b) ==
    /\ Reply(method, k, user, id, s, b)
    /\ UNCHANGED loop

\* The number of records created so far.
Created ==
    (userIdCounter - 1) + (eventIdCounter - 1) + (studyIdCounter - 1) + (postIdCounter - 1)
    + (forumTopicIdCounter - 1) + (forumReplyIdCounter - 1) + (siteSettingIdCounter - 1)

\* ---------------------------------------------------------- middleware
\* A middleware that lets every request through.
EveryoneAuthenticated(user) == TRUE

\* isAuthenticated: next() when req.isAuthenticated(), else 401.
isAuthenticated(user) == user.authenticated
\* An admin gate that lets members through as well.
AdminOrMember(user) == user.authenticated /\ user.role \in {"admin", "member"}
\* An admin gate that does not look at the role.
AnyAuthenticated(user) == user.authenticated
\* isAdmin: next() when authenticated with role admin, else 403.
isAdmin(user) == user.authenticated /\ user.role = "admin"

\* A handler without the ownership check.
OwnershipNotChecked(k, existing, user) == FALSE

\* A handler whose ownership check does not exempt the admin.
NotOwner(k, existing, user) == existing[OwnerField(k)] /= user.id

\* "Only the creator or admin can update / delete": the 403 condition.
NotOwnerNorAdmin(k, existing, user) ==
    existing[OwnerField(k)] /= user.id /\ user.role /= "admin"

\* A handler without the "if (!existing)" return: reading the owner field of
\* undefined throws, and the catch block answers 500.
OwnedGateNoLookup(k, data, user, id) ==
    IF ~isAuthenticated(user) THEN 401
    ELSE IF ~MapHas(data, id) THEN 500
    ELSE IF NotOwnerNorAdmin(k, data[id], user) THEN 403
    ELSE 200

\* A handler that rejects the non-admin before it loads the record.
OwnedGateRoleFirst(k, data, user, id) ==
    IF ~isAuthenticated(user) THEN 401
    ELSE IF user.role /= "admin" /\ (~MapHas(data, id) \/ NotOwner(k, data[id], user)) THEN 403
    ELSE IF ~MapHas(data, id) THEN 404
    ELSE 200

\* The early returns of PATCH and DELETE /api/<kind>/:id, in the handlers'
\* order: the middleware, the lookup, the ownership check; 200 when none is taken.
OwnedGate(k, data, user, id) ==
    IF ~isAuthenticated(user) THEN 401
    ELSE IF ~MapHas(data, id) THEN 404
    ELSE IF NotOwnerNorAdmin(k, data[id], user) THEN 403
    ELSE 200

GateMessage(k, s) ==
    CASE s = 401 -> Message("Unauthorized")
      [] s = 403 -> Message("Forbidden")
      [] s = 404 -> Message(Label(k) \o " not found")
      [] s = 500 -> Message("Error")

\* --------------------------------------------- routes of the owned kinds
\* A POST handler that takes the next id before it validates the body.
PostOwnedTakesIdFirst(k, user, body, now) ==
    IF ~isAuthenticated(user)
    THEN /\ Respond("POST", k, user, 0, 401, Message("Unauthorized"))
         /\ UNCHANGED <<repo, hist>>
    ELSE IF ~ParseOk(k, body)
    THEN /\ SetRepo(k, Data(k), Counter(k) + 1)
         /\ Respond("POST", k, user, 0, 400, Message("Invalid data"))
         /\ UNCHANGED hist
    ELSE LET r == StorageCreate(k, Data(k), Counter(k), Parse(k, body), now)
         IN /\ SetRepo(k, r.data, r.counter)
            /\ returned' = [returned EXCEPT ![k] = Append(@, r.result.id)]
            /\ UNCHANGED removed
            /\ Respond("POST", k, user, 0, 201, r.result)

\* POST /api/<kind>
PostOwned(k, user, body, now) ==
    IF ~isAuthenticated(user)
    THEN /\ Respond("POST", k, user, 0, 401, Message("Unauthorized"))
         /\ UNCHANGED <<repo, hist>>
    ELSE IF ~ParseOk(k, body)
    THEN /\ Respond("POST", k, user, 0, 400, Message("Invalid data"))
         /\ UNCHANGED <<repo, hist>>
    ELSE LET r == StorageCreate(k, Data(k), Counter(k), Parse(k, body), now)
         IN /\ SetRepo(k, r.data, r.counter)
            /\ returned' = [returned EXCEPT ![k] = Append(@, r.result.id)]
            /\ UNCHANGED removed
            /\ Respond("POST", k, user, 0, 201, r.result)

\* PATCH /api/<kind>/:id
PatchOwned(k, user, id, body, now) ==
    LET gate == OwnedGate(k, Data(k), user, id)
    IN /\ IF gate /= 200
          THEN /\ Respond("PATCH", k, user, id, gate, GateMessage(k, gate))
               /\ UNCHANGED repo
          ELSE LET r == StorageUpdate(k, Data(k), id, body, now)
               IN /\ SetRepo(k, r.data, Counter(k))
                  /\ Respond("PATCH", k, user, id, 200, r.result)
       /\ UNCHANGED hist

\* DELETE /api/<kind>/:id
DeleteOwned(k, user, id) ==
    LET gate == OwnedGate(k, Data(k), user, id)
    IN /\ IF gate /= 200
          THEN /\ Respond("DELETE", k, user, id, gate, GateMessage(k, gate))
               /\ UNCHANGED <<repo, removed>>
          ELSE LET r == StorageDelete(Data(k), id)
               IN /\ SetRepo(k, r.data, Counter(k))
                  /\ removed' = [removed EXCEPT ![k] = IF r.result THEN @ \cup {id} ELSE @]
                  /\ IF r.result
                     THEN Respond("DELETE", k, user, id, 200, Message(Label(k) \o " deleted"))
                     ELSE Respond("DELETE", k, user, id, 404, Message(Label(k) \o " not found"))
       /\ UNCHANGED returned

\* ------------------------------------------------------- user routes
\* A response built from the stored user as it is.
WithPassword(user) == user

\* users.map(user => { const { password, ...userWithoutPassword } = user; ... })
WithoutPassword(user) == Omit(user, {"password"})
UsersWithoutPasswords(users) == [i \in DOMAIN users |-> WithoutPassword(users[i])]

\* An update that passes the whole body on.
WholeBody(body) == body

\* const { password, ...updateData } = req.body
UpdateData(body) == Omit(body, {"password"})

\* GET /api/events/upcoming
GetUpcoming(user, count, now) ==
    /\ Respond("UPCOMING", "event", user, 0, 200, GetUpcomingEvents(eventsData, count, now))
    /\ UNCHANGED <<repo, hist>>

\* GET /api/users
GetUsers(user) ==
    /\ IF ~isAdmin(user)
       THEN Respond("GET", "user", user, 0, 403, Message("Forbidden"))
       ELSE Respond("GET", "user", user, 0, 200, UsersWithoutPasswords(MapValues(usersData)))
    /\ UNCHANGED <<repo, hist>>

\* PATCH /api/users/:id
PatchUser(user, id, body, now) ==
    /\ IF ~isAdmin(user)
       THEN /\ Respond("PATCH", "user", user, id, 403, Message("Forbidden"))
            /\ UNCHANGED repo
       ELSE LET r == StorageUpdate("user", usersData, id, UpdateData(body), now)
            IN /\ SetRepo("user", r.data, userIdCounter)
               /\ IF r.found
                  THEN Respond("PATCH", "user", user, id, 200, WithoutPassword(r.result))
                  ELSE Respond("PATCH", "user", user, id, 404, Message("User not found"))
    /\ UNCHANGED hist

\* ------------------------------------------------- site-settings routes
\* storage.getSiteSetting(key): the first setting, in map order, with that key.
SettingIdsByKey(data, key) == {i \in DOMAIN data : data[i].key = key}
\* A lookup by key that never finds the setting.
NeverHasSiteSetting(data, key) == FALSE
HasSiteSetting(data, key) == SettingIdsByKey(data, key) /= {}
GetSiteSetting(data, key) ==
    data[CHOOSE i \in SettingIdsByKey(data, key) : \A j \in SettingIdsByKey(data, key) : i <= j]

\* !key
NoKey(item) == "key" \notin DOMAIN item

\* The upsert both settings handlers perform for one {key, value}:
\* update the setting found by key, else create one.
Upsert(data, counter, item, user, now) ==
    LET fields == [key |-> item.key, value |-> Field(item, "value"), updatedBy |-> user.id]
    IN IF HasSiteSetting(data, item.key)
       THEN LET u == StorageUpdate("siteSetting", data, GetSiteSetting(data, item.key).id, fields, now)
            IN [data |-> u.data, counter |-> counter, created |-> <<>>, result |-> u.result]
       ELSE LET c == StorageCreate("siteSetting", data, counter, fields, now)
            IN [data |-> c.data, counter |-> c.counter, created |-> <<c.result.id>>,
                result |-> c.result]

\* POST /api/site-settings
PostSiteSetting(user, body, now) ==
    /\ IF ~isAdmin(user)
       THEN /\ Respond("POST", "siteSetting", user, 0, 403, Message("Forbidden"))
            /\ UNCHANGED <<repo, returned>>
       ELSE IF NoKey(body)
       THEN /\ Respond("POST", "siteSetting", user, 0, 400, Message("Key is required"))
            /\ UNCHANGED <<repo, returned>>
       ELSE LET r == Upsert(siteSettingsData, siteSettingIdCounter, body, user, now)
            IN /\ SetRepo("siteSetting", r.data, r.counter)
               /\ returned' = [returned EXCEPT !["siteSetting"] = @ \o r.created]
               /\ Respond("POST", "siteSetting", user, 0,
                          IF r.created = <<>> THEN 200 ELSE 201, r.result)
    /\ UNCHANGED removed

\* An item of the batch array that is null (destructuring it throws).
JsonNull == [null |-> TRUE]

\* A loop that catches the failure of an item and goes on with the next ones.
RECURSIVE BatchLoopCatchInside(_, _, _, _, _, _, _, _)
BatchLoopCatchInside(items, i, data, counter, created, count, user, now) ==
    IF i > Len(items)
    THEN [data |-> data, counter |-> counter, created |-> created, count |-> count, threw |-> FALSE]
    ELSE IF items[i] = JsonNull
    THEN [BatchLoopCatchInside(items, i + 1, data, counter, created, count, user, now)
             EXCEPT !.threw = TRUE]
    ELSE IF NoKey(items[i])
    THEN BatchLoopCatchInside(items, i + 1, data, counter, created, count, user, now)
    ELSE LET r == Upsert(data, counter, items[i], user, now)
         IN BatchLoopCatchInside(items, i + 1, r.data, r.counter, created \o r.created,
                                 count + 1, user, now)

\* for (const item of req.body) { ... } of the batch handler, from item i on:
\* the store it leaves, the number of results pushed, and whether an item threw,
\* which ends the loop in the catch block.
RECURSIVE BatchLoop(_, _, _, _, _, _, _, _)
BatchLoop(items, i, data, counter, created, count, user, now) ==
    IF i > Len(items)
    THEN [data |-> data, counter |-> counter, created |-> created, count |-> count, threw |-> FALSE]
    ELSE IF items[i] = JsonNull
    THEN [data |-> data, counter |-> counter, created |-> created, count |-> count, threw |-> TRUE]
    ELSE IF NoKey(items[i])
    THEN BatchLoop(items, i + 1, data, counter, created, count, user, now)
    ELSE LET r == Upsert(data, counter, items[i], user, now)
         IN BatchLoop(items, i + 1, r.data, r.counter, created \o r.created, count + 1, user, now)

\* POST /api/site-settings/batch; body is the parsed JSON: whether it is an
\* array and, if so, its items.
PostSiteSettingsBatch(user, body, now) ==
    /\ IF ~isAdmin(user)
       THEN /\ Respond("BATCH", "siteSetting", user, 0, 403, Message("Forbidden"))
            /\ UNCHANGED <<repo, returned>>
       ELSE IF ~body.isArray
       THEN /\ Respond("BATCH", "siteSetting", user, 0, 400, Message("Request body must be an array"))
            /\ UNCHANGED <<repo, returned>>
       ELSE LET r == BatchLoop(body.items, 1, siteSettingsData, siteSettingIdCounter, <<>>, 0, user, now)
            IN /\ SetRepo("siteSetting", r.data, r.counter)
               /\ returned' = [returned EXCEPT !["siteSetting"] = @ \o r.created]
               /\ IF r.threw
                  THEN Respond("BATCH", "siteSetting", user, 0, 500,
                               Message("Error updating site settings"))
                  ELSE Respond("BATCH", "siteSetting", user, 0, 200,
                               [message |-> "Settings updated", count |-> r.count])
    /\ UNCHANGED removed

\* ------------------------------------------------ handlers on the event loop
\* A task is a request with the position its handler has reached (pc) and
\* the handler's local variables.  The event loop gives a turn to a waiting
\* task only when no continuation is queued; a turn runs the handler up to
\* its next await or to its response.
Task(route, k, user, id, body, now) ==
    [route |-> route, kind |-> k, user |-> user, id |-> id, body |-> body, now |-> now,
     pc |-> "start", local |-> EmptyObject]
CanDispatch(l) == l.micro = <<>>

\* An await on a promise that settles only after input/output: the
\* continuation waits for a turn of its own.
AwaitIo(l, task) == [l EXCEPT !.macro = @ \cup {task}]

\* await storage.x(...): every MemStorage method is an async function whose
\* body has no await, so it has run by the time the promise is returned and
\* the continuation is queued behind the continuations already there.
AwaitStorage(l, task) == [l EXCEPT !.micro = Append(@, task)]

\* DELETE /api/<kind>/:id, one turn of the handler from task.pc, the event
\* loop being l without the task.
DeleteTurn(task, l) ==
    LET k == task.kind
        id == task.id
        user == task.user
    IN CASE task.pc = "start" ->
              IF ~isAuthenticated(user)
              THEN /\ Reply("DELETE", k, user, id, 401, Message("Unauthorized"))
                   /\ loop' = l
                   /\ UNCHANGED <<repo, hist>>
              ELSE /\ loop' = AwaitStorage(l,
                                 [task EXCEPT !.pc = "checked",
                                              !.local = [found |-> MapHas(Data(k), id),
                                                         existing |-> IF MapHas(Data(k), id)
                                                                      THEN Data(k)[id]
                                                                      ELSE EmptyObject]])
                   /\ UNCHANGED <<repo, hist, req, res>>
         [] task.pc = "checked" ->
              IF ~task.local.found
              THEN /\ Reply("DELETE", k, user, id, 404, Message(Label(k) \o " not found"))
                   /\ loop' = l
                   /\ UNCHANGED <<repo, hist>>
              ELSE IF NotOwnerNorAdmin(k, task.local.existing, user)
              THEN /\ Reply("DELETE", k, user, id, 403, Message("Forbidden"))
                   /\ loop' = l
                   /\ UNCHANGED <<repo, hist>>
              ELSE LET r == StorageDelete(Data(k), id)
                   IN /\ SetRepo(k, r.data, Counter(k))
                      /\ removed' = [removed EXCEPT ![k] = IF r.result THEN @ \cup {id} ELSE @]
                      /\ loop' = AwaitStorage(l, [task EXCEPT !.pc = "deleted",
                                                              !.local = [result |-> r.result]])
                      /\ UNCHANGED <<returned, req, res>>
         [] task.pc = "deleted" ->
              /\ IF task.local.result
                 THEN Reply("DELETE", k, user, id, 200, Message(Label(k) \o " deleted"))
                 ELSE Reply("DELETE", k, user, id, 404, Message(Label(k) \o " not found"))
              /\ loop' = l
              /\ UNCHANGED <<repo, hist>>

\* POST /api/site-settings, one turn of the handler from task.pc.
UpsertTurn(task, l) ==
    LET user == task.user
        body == task.body
        data == siteSettingsData
        fields == [key |-> body.key, value |-> Field(body, "value"), updatedBy |-> user.id]
    IN CASE task.pc = "start" ->
              IF ~isAdmin(user)
              THEN /\ Reply("POST", "siteSetting", user, 0, 403, Message("Forbidden"))
                   /\ loop' = l
                   /\ UNCHANGED <<repo, hist>>
              ELSE IF NoKey(body)
              THEN /\ Reply("POST", "siteSetting", user, 0, 400, Message("Key is required"))
                   /\ loop' = l
                   /\ UNCHANGED <<repo, hist>>
              ELSE /\ loop' = AwaitStorage(l,
                                 [task EXCEPT !.pc = "looked",
                                              !.local = [found |-> HasSiteSetting(data, body.key),
                                                         existing |-> IF HasSiteSetting(data, body.key)
                                                                      THEN GetSiteSetting(data, body.key)
                                                                      ELSE EmptyObject]])
                   /\ UNCHANGED <<repo, hist, req, res>>
         [] task.pc = "looked" ->
              IF task.local.found
              THEN LET u == StorageUpdate("siteSetting", data, task.local.existing.id, fields, task.now)
                   IN /\ SetRepo("siteSetting", u.data, siteSettingIdCounter)
                      /\ loop' = AwaitStorage(l, [task EXCEPT !.pc = "written",
                                                              !.local = [status |-> 200,
                                                                         result |-> u.result]])
                      /\ UNCHANGED <<hist, req, res>>
              ELSE LET c == StorageCreate("siteSetting", data, siteSettingIdCounter, fields, task.now)
                   IN /\ SetRepo("siteSetting", c.data, c.counter)
                      /\ returned' = [returned EXCEPT !["siteSetting"] = Append(@, c.result.id)]
                      /\ loop' = AwaitStorage(l, [task EXCEPT !.pc = "written",
                                                              !.local = [status |-> 201,
                                                                         result |-> c.result]])
                      /\ UNCHANGED <<removed, req, res>>
         [] task.pc = "written" ->
              /\ Reply("POST", "siteSetting", user, 0, task.local.status, task.local.result)
              /\ loop' = l
              /\ UNCHANGED <<repo, hist>>

Turn(task, l) == IF task.route = "DELETE" THEN DeleteTurn(task, l) ELSE UpsertTurn(task, l)

\* A request reaches the server and waits for its turn.
Submit(task) ==
    /\ task \notin loop.macro
    /\ loop' = [loop EXCEPT !.macro = @ \cup {task}]
    /\ UNCHANGED <<repo, hist, req, res>>
\* The event loop gives a waiting task its turn.
Dispatch(task) ==
    /\ task \in loop.macro
    /\ CanDispatch(loop)
    /\ Turn(task, [loop EXCEPT !.macro = @ \ {task}])
\* The event loop runs the first queued continuation.
Continue ==
    /\ loop.micro /= <<>>
    /\ Turn(Head(loop.micro), [loop EXCEPT !.micro = Tail(@)])

\* ------------------------------------------------------------- reads
\* A lookup by topic that does not filter.
AllForumReplies(data, topicId) == MapValues(data)

\* storage.getForumRepliesByTopic(topicId):
\* Array.from(values).filter(reply => reply.topicId === topicId)
GetForumRepliesByTopic(data, topicId) ==
    SelectSeq(MapValues(data), LAMBDA reply : reply.topicId = topicId)

\* storage.getForumRepliesByTopic(topicId), called directly
CallGetForumRepliesByTopic(topicId) ==
    /\ Respond("getForumRepliesByTopic", "forumReply", NoUser, topicId, 0,
               GetForumRepliesByTopic(forumRepliesData, topicId))
    /\ UNCHANGED <<repo, hist>>

\* GET /api/forum/topics/:topicId/replies (no middleware)
GetForumReplies(user, topicId) ==
    /\ Respond("REPLIES", "forumReply", user, topicId, 200,
               GetForumRepliesByTopic(forumRepliesData, topicId))
    /\ UNCHANGED <<repo, hist>>

\* storage.getAll*(): Array.from(this.<kind>Data.values())
GetAll(data) == MapValues(data)

\* storage.get*(id): this.<kind>Data.get(id), undefined when the key is absent
GetById(data, id) ==
    [found |-> MapHas(data, id), value |-> IF MapHas(data, id) THEN data[id] ELSE Undefined]

CallGetAll(k) ==
    /\ Respond("getAll", k, NoUser, 0, 0, GetAll(Data(k)))
    /\ UNCHANGED <<repo, hist>>

CallGet(k, id) ==
    /\ Respond("get", k, NoUser, id, 0, GetById(Data(k), id))
    /\ UNCHANGED <<repo, hist>>

\* GET /api/<kind>/:id (no middleware)
GetOne(k, user, id) ==
    LET r == GetById(Data(k), id)
    IN /\ IF r.found
          THEN Respond("GETBYID", k, user, id, 200, r.value)
          ELSE Respond("GETBYID", k, user, id, 404, Message(Label(k) \o " not found"))
       /\ UNCHANGED <<repo, hist>>

\* ------------------------------------------- direct repository calls
\* storage.create*(fields), as the registration handler of the auth module
\* calls createUser.
CallCreate(k, fields, now) ==
    LET r == StorageCreate(k, Data(k), Counter(k), fields, now)
    IN /\ SetRepo(k, r.data, r.counter)
       /\ returned' = [returned EXCEPT ![k] = Append(@, r.result.id)]
       /\ UNCHANGED removed
       /\ Respond("create", k, NoUser, r.result.id, 0, r.result)

\* storage.update*(id, fields)
CallUpdate(k, id, fields, now) ==
    LET r == StorageUpdate(k, Data(k), id, fields, now)
    IN /\ SetRepo(k, r.data, Counter(k))
       /\ UNCHANGED hist
       /\ Respond("update", k, NoUser, id, 0, [found |-> r.found, value |-> r.result])

\* A deleteForumTopic that also removes the replies of the topic.
CallDeleteCascade(k, id) ==
    LET r == StorageDelete(Data(k), id)
    IN /\ IF k = "forumTopic"
          THEN /\ forumTopicsData' = r.data
               /\ forumRepliesData' =
                      [i \in {j \in DOMAIN forumRepliesData : forumRepliesData[j].topicId /= id}
                          |-> forumRepliesData[i]]
               /\ UNCHANGED <<usersData, eventsData, studiesData, postsData,
                              siteSettingsData, counters>>
          ELSE SetRepo(k, r.data, Counter(k))
       /\ removed' = [removed EXCEPT ![k] = IF r.result THEN @ \cup {id} ELSE @]
       /\ UNCHANGED returned
       /\ Respond("delete", k, NoUser, id, 0, [deleted |-> r.result])

\* storage.delete*(id)
CallDelete(k, id) ==
    LET r == StorageDelete(Data(k), id)
    IN /\ SetRepo(k, r.data, Counter(k))
       /\ removed' = [removed EXCEPT ![k] = IF r.result THEN @ \cup {id} ELSE @]
       /\ UNCHANGED returned
       /\ Respond("delete", k, NoUser, id, 0, [deleted |-> r.result])

\* -------------------------------------------------------- specifications
\* new MemStorage(): empty maps, every counter 1; no request answered yet.
Init ==
    /\ usersData = EmptyMap /\ eventsData = EmptyMap /\ studiesData = EmptyMap
    /\ postsData = EmptyMap /\ forumTopicsData = EmptyMap
    /\ forumRepliesData = EmptyMap /\ siteSettingsData = EmptyMap
    /\ userIdCounter = 1 /\ eventIdCounter = 1 /\ studyIdCounter = 1
    /\ postIdCounter = 1 /\ forumTopicIdCounter = 1
    /\ forumReplyIdCounter = 1 /\ siteSettingIdCounter = 1
    /\ req = [method |-> "NONE", kind |-> "none", user |-> NoUser, id |-> 0]
    /\ res = [status |-> 0, body |-> EmptyObject]
    /\ returned = [k \in Kinds |-> <<>>]
    /\ removed = [k \in Kinds |-> {}]
    /\ loop = [macro |-> {}, micro |-> <<>>]

\* --- Spec: every route, any requester.
\* parseInt(req.params.id)
IdParams == 1..MaxCreates

\* JSON bodies of POST /api/<kind>: valid, valid with keys the schema omits,
\* and one with a required key missing.
CreateBodies(k) ==
    CASE k = "event" ->
           {[title |-> "a", startTime |-> 1, createdBy |-> 2],
            [title |-> "a", startTime |-> 1, createdBy |-> 2, id |-> 2, createdAt |-> 0],
            [title |-> "a", startTime |-> 1]}
      [] k = "forumReply" ->
           {[content |-> "a", topicId |-> 1, authorId |-> 2],
            [content |-> "a", topicId |-> 1, authorId |-> 2, id |-> 2, createdAt |-> 0],
            [content |-> "a", topicId |-> 1]}
      [] OTHER ->
           {[title |-> "a", authorId |-> 2],
            [title |-> "a", authorId |-> 2, id |-> 2, createdAt |-> 0],
            [title |-> "a"]}

\* JSON bodies of PATCH /api/<kind>/:id (the handler does not validate them).
TextField(k) == IF k = "forumReply" THEN "content" ELSE "title"
PatchBodies(k) == {EmptyObject, (TextField(k) :> "b"), (OwnerField(k) :> 3)}

\* Arguments of storage.createUser and JSON bodies of PATCH /api/users/:id.
NewUsers == {[username |-> "u1", password |-> "h1", role |-> "member"]}
UserPatchBodies ==
    {EmptyObject, [role |-> "admin"], [password |-> "h2"], [password |-> "h2", role |-> "admin"]}

\* JSON bodies of POST /api/site-settings and of the batch route.
SettingBodies == {[key |-> "a", value |-> "1"], [key |-> "a", value |-> "2"], [foo |-> "bad"]}
BatchBodies ==
    {[isArray |-> FALSE, items |-> <<>>],
     [isArray |-> TRUE, items |-> <<[foo |-> "bad"], [key |-> "a", value |-> "2"]>>],
     [isArray |-> TRUE, items |-> <<[key |-> "a", value |-> "1"], JsonNull>>]}

PostRequest ==
    /\ Created < MaxCreates
    /\ \E k \in OwnedKinds, u \in Requesters, t \in Times :
           \E b \in CreateBodies(k) : PostOwned(k, u, b, t)
PatchRequest ==
    \E k \in OwnedKinds, u \in Requesters, i \in IdParams, t \in Times :
        \E b \in PatchBodies(k) : PatchOwned(k, u, i, b, t)
DeleteRequest == \E k \in OwnedKinds, u \in Requesters, i \in IdParams : DeleteOwned(k, u, i)
CreateUserCall ==
    /\ Created < MaxCreates
    /\ \E f \in NewUsers, t \in Times : CallCreate("user", f, t)
GetUsersRequest == \E u \in Requesters : GetUsers(u)
PatchUserRequest ==
    \E u \in Requesters, i \in IdParams, b \in UserPatchBodies, t \in Times : PatchUser(u, i, b, t)
PostSiteSettingRequest ==
    /\ \E u \in Requesters, b \in SettingBodies, t \in Times : PostSiteSetting(u, b, t)
    /\ Created' <= MaxCreates
PostSiteSettingsBatchRequest ==
    /\ \E u \in Requesters, b \in BatchBodies, t \in Times : PostSiteSettingsBatch(u, b, t)
    /\ Created' <= MaxCreates

Next ==
    \/ PostRequest
    \/ PatchRequest
    \/ DeleteRequest
    \/ CreateUserCall
    \/ GetUsersRequest
    \/ PatchUserRequest
    \/ PostSiteSettingRequest
    \/ PostSiteSettingsBatchRequest

Spec == Init /\ [][Next]_vars

\* --- SpecUsers: the user routes and createUser, several users.
UserIdParams == 1..MaxUsers
UsersToCreate ==
    {[username |-> "u1", password |-> "h1", role |-> "member"],
     [username |-> "u2", password |-> "h3", role |-> "admin"]}
UsersPatchBodies == UserPatchBodies \cup {[username |-> "u2"], [password |-> "h2", username |-> "u1"]}

UsersCreate ==
    /\ userIdCounter <= MaxUsers
    /\ \E f \in UsersToCreate, t \in Times : CallCreate("user", f, t)
UsersGet == \E u \in Requesters : GetUsers(u)
UsersPatch ==
    \E u \in Requesters, i \in UserIdParams, b \in UsersPatchBodies, t \in Times :
        PatchUser(u, i, b, t)

NextUsers == UsersCreate \/ UsersGet \/ UsersPatch

SpecUsers == Init /\ [][NextUsers]_vars

\* --- SpecRepo: the repository methods of every kind, called in any order.
RepoIds == 1..MaxCalls
RepoTextField(k) ==
    CASE k = "user" -> "username" [] k = "siteSetting" -> "value" [] OTHER -> TextField(k)
RepoFields(k) ==
    CASE k = "user" -> [username |-> "u1", password |-> "h1", role |-> "member"]
      [] k = "event" -> [title |-> "a", startTime |-> 1, createdBy |-> 2]
      [] k = "forumReply" -> [content |-> "a", topicId |-> 1, authorId |-> 2]
      [] k = "siteSetting" -> [key |-> "a", value |-> "1", updatedBy |-> 1]
      [] OTHER -> [title |-> "a", authorId |-> 2]
RepoUpdates(k) == {(RepoTextField(k) :> "b")}

RepoCreate ==
    /\ Created < MaxCalls
    /\ \E k \in Kinds, t \in Times : CallCreate(k, RepoFields(k), t)
RepoUpdate ==
    \E k \in Kinds, i \in RepoIds, t \in Times : \E f \in RepoUpdates(k) : CallUpdate(k, i, f, t)
RepoDelete == \E k \in Kinds \ {"user", "siteSetting"}, i \in RepoIds : CallDelete(k, i)

NextRepo == RepoCreate \/ RepoUpdate \/ RepoDelete

SpecRepo == Init /\ [][NextRepo]_vars

\* --- SpecMerge: create* and update* of every kind, the updates with fields
\* Partial<Insert*> allows and at either instant.
MaxMerged == 2
MergeIds == 1..MaxMerged
UpdateTimes == {1, 2}
MergeUpdates(k) ==
    CASE k = "user" -> {[username |-> "b", role |-> "admin"]}
      [] k = "siteSetting" -> {[value |-> "b"], [key |-> "b", updatedBy |-> 4]}
      [] OTHER -> {(TextField(k) :> "b")}

MergeCreate ==
    /\ Created < MaxMerged
    /\ \E k \in Kinds, t \in Times : CallCreate(k, RepoFields(k), t)
MergeUpdate ==
    \E k \in Kinds, i \in MergeIds, t \in UpdateTimes :
        \E f \in MergeUpdates(k) : CallUpdate(k, i, f, t)

NextMerge == MergeCreate \/ MergeUpdate

SpecMerge == Init /\ [][NextMerge]_vars

\* --- SpecPatch: the PATCH routes with JSON bodies that name id or createdAt,
\* next to update* called with the fields its parameter type allows.
MaxPatched == 1
PatchIds == 1..MaxPatched
PatchedKinds == Kinds \ {"siteSetting"}
WideBodies(k) ==
    IF k = "user"
    THEN {[role |-> "admin"], [id |-> 2], [createdAt |-> 0]}
    ELSE {(TextField(k) :> "b"), [id |-> 2], [createdAt |-> 0]}

PatchCreate ==
    /\ Created < MaxPatched
    /\ \E k \in PatchedKinds, t \in Times : CallCreate(k, RepoFields(k), t)
PatchRoute ==
    \E k \in OwnedKinds, u \in Requesters, i \in PatchIds, t \in Times :
        \E b \in WideBodies(k) : PatchOwned(k, u, i, b, t)
PatchUserRoute ==
    \E u \in Requesters, i \in PatchIds, t \in Times :
        \E b \in WideBodies("user") : PatchUser(u, i, b, t)
PatchCall ==
    \E k \in Kinds, i \in PatchIds, t \in Times :
        \E f \in MergeUpdates(k) : CallUpdate(k, i, f, t)

NextPatch == PatchCreate \/ PatchRoute \/ PatchUserRoute \/ PatchCall

SpecPatch == Init /\ [][NextPatch]_vars

\* --- SpecUpcoming: events created with start times around the two instants
\* at which GET /api/events/upcoming is asked, with and without a count.
MaxEvents == 6
StartTimes == {0, 2, 3, 4}
\* The requests asked: a count, or none, and the instant of the request.
UpcomingQueries ==
    {[count |-> NoCount, now |-> 1], [count |-> Count(0), now |-> 1],
     [count |-> Count(3), now |-> 1], [count |-> Count(1), now |-> 3],
     [count |-> NoCount, now |-> 3]}

UpcomingCreate ==
    /\ eventIdCounter <= MaxEvents
    /\ \E s \in StartTimes, t \in Times :
           CallCreate("event", [title |-> "a", startTime |-> s, createdBy |-> 2], t)
UpcomingGet == \E q \in UpcomingQueries : GetUpcoming(NoUser, q.count, q.now)

NextUpcoming == UpcomingCreate \/ UpcomingGet

SpecUpcoming == Init /\ [][NextUpcoming]_vars

\* --- SpecSettings: the two settings routes, three keys, two admins, two
\* instants, and arrays with keyless and null elements.
MaxSettings == 2
SettingKeys == {"a", "b", "c"}
\* Who sends a request and when: one admin early, another later, a member.
SettingsCalls ==
    {[user |-> Principal(1, "admin"), now |-> 1], [user |-> Principal(4, "admin"), now |-> 2],
     [user |-> Principal(2, "member"), now |-> 1]}
SettingsBodies ==
    {[key |-> "a", value |-> "1"], [key |-> "a", value |-> "2"], [key |-> "b", value |-> "1"],
     [key |-> "c", value |-> "1"], [key |-> "a"], [foo |-> "bad"]}
Array(items) == [isArray |-> TRUE, items |-> items]
SettingsBatchBodies ==
    {[isArray |-> FALSE, items |-> <<>>],
     Array(<<>>),
     Array(<<[key |-> "a", value |-> "1"], [key |-> "b", value |-> "2"], [foo |-> "bad"]>>),
     Array(<<[key |-> "a", value |-> "1"], [key |-> "a", value |-> "2"]>>),
     Array(<<[foo |-> "bad"], [key |-> "b", value |-> "1"]>>),
     Array(<<[key |-> "a", value |-> "2"], JsonNull, [key |-> "b", value |-> "1"]>>),
     Array(<<JsonNull>>)}

SettingsPost ==
    /\ \E c \in SettingsCalls, b \in SettingsBodies : PostSiteSetting(c.user, b, c.now)
    /\ Created' <= MaxSettings
SettingsBatch ==
    /\ \E c \in SettingsCalls, b \in SettingsBatchBodies :
           PostSiteSettingsBatch(c.user, b, c.now)
    /\ Created' <= MaxSettings

NextSettings == SettingsPost \/ SettingsBatch

SpecSettings == Init /\ [][NextSettings]_vars

\* --- SpecStamp: create* of every kind and POST of the owned kinds, at either
\* instant, with input that may itself name id and the timestamp field.
MaxStamped == 2
StampFields(k) ==
    {RepoFields(k), Spread(RepoFields(k), (StampField(k) :> 0) @@ ("id" :> 7))}

StampCreate ==
    /\ Created < MaxStamped
    /\ \E k \in Kinds, t \in UpdateTimes : \E f \in StampFields(k) : CallCreate(k, f, t)
StampPost ==
    /\ Created < MaxStamped
    /\ \E k \in OwnedKinds, t \in UpdateTimes :
           \E b \in CreateBodies(k) : PostOwned(k, Principal(2, "member"), b, t)

NextStamp == StampCreate \/ StampPost

SpecStamp == Init /\ [][NextStamp]_vars

\* --- SpecLoop: several requests for the same event and the same setting
\* key wait on the event loop while handlers run turn by turn.
MaxInFlight == 2
LoopRequests ==
    {Task("DELETE", "event", Principal(2, "member"), 1, EmptyObject, 1),
     Task("DELETE", "event", Principal(1, "admin"), 1, EmptyObject, 1),
     Task("POST", "siteSetting", Principal(1, "admin"), 0, [key |-> "a", value |-> "1"], 1),
     Task("POST", "siteSetting", Principal(4, "admin"), 0, [key |-> "a", value |-> "2"], 1)}
InFlight == Cardinality(loop.macro) + Len(loop.micro)

LoopCreate ==
    /\ Created < MaxInFlight
    /\ CanDispatch(loop)
    /\ \E t \in Times : CallCreate("event", RepoFields("event"), t)
LoopSubmit ==
    /\ InFlight < MaxInFlight
    /\ \E task \in LoopRequests : Submit(task)
LoopDispatch ==
    /\ \E task \in loop.macro : Dispatch(task)
    /\ Created' <= MaxInFlight
LoopContinue ==
    /\ Continue
    /\ Created' <= MaxInFlight

NextLoop == LoopCreate \/ LoopSubmit \/ LoopDispatch \/ LoopContinue

SpecLoop == Init /\ [][NextLoop]_vars

\* --- SpecRejected: every route that can answer 400, 403 or 404, with
\* successful creates before and after the rejected requests.
MaxRejected == 2
RejectedIds == 1..MaxRejected
RejectedKinds == {"event", "forumReply"}
RejectedUsers == {Principal(1, "admin"), Principal(2, "member"), Principal(3, "member")}

RejectedCreateUser ==
    /\ Created < MaxRejected
    /\ \E f \in NewUsers, t \in Times : CallCreate("user", f, t)
RejectedPost ==
    /\ \E k \in RejectedKinds, t \in Times :
           \E b \in CreateBodies(k) : PostOwned(k, Principal(2, "member"), b, t)
    /\ Created' <= MaxRejected
RejectedPatch ==
    \E k \in RejectedKinds, u \in RejectedUsers, i \in RejectedIds, t \in Times :
        PatchOwned(k, u, i, (TextField(k) :> "b"), t)
RejectedDelete ==
    \E k \in RejectedKinds, u \in RejectedUsers, i \in RejectedIds : DeleteOwned(k, u, i)
RejectedGetUsers == \E u \in RejectedUsers : GetUsers(u)
RejectedPatchUser ==
    \E u \in RejectedUsers, i \in RejectedIds, t \in Times : PatchUser(u, i, [role |-> "admin"], t)
RejectedPostSiteSetting ==
    /\ \E u \in RejectedUsers, b \in SettingBodies, t \in Times : PostSiteSetting(u, b, t)
    /\ Created' <= MaxRejected
RejectedBatch ==
    /\ \E u \in RejectedUsers, b \in BatchBodies, t \in Times : PostSiteSettingsBatch(u, b, t)
    /\ Created' <= MaxRejected

NextRejected ==
    \/ RejectedCreateUser
    \/ RejectedPost
    \/ RejectedPatch
    \/ RejectedDelete
    \/ RejectedGetUsers
    \/ RejectedPatchUser
    \/ RejectedPostSiteSetting
    \/ RejectedBatch

SpecRejected == Init /\ [][NextRejected]_vars

\* --- SpecCascade: the repository methods of every kind, with forum
\* replies under several topic ids, and the reads of replies by topic.
MaxCascade == 2
CascadeIds == 1..MaxCascade
CascadeFields(k) ==
    IF k = "forumReply"
    THEN {[content |-> "a", topicId |-> t, authorId |-> 2] : t \in CascadeIds}
    ELSE {RepoFields(k)}
CascadeUpdates(k) ==
    IF k = "forumReply" THEN {[topicId |-> 2]} ELSE RepoUpdates(k)

CascadeCreate ==
    /\ Created < MaxCascade
    /\ \E k \in Kinds, t \in Times : \E f \in CascadeFields(k) : CallCreate(k, f, t)
CascadeUpdate ==
    \E k \in Kinds, i \in CascadeIds, t \in Times :
        \E f \in CascadeUpdates(k) : CallUpdate(k, i, f, t)
CascadeDelete == \E k \in OwnedKinds, i \in CascadeIds : CallDelete(k, i)
CascadeReplies == \E t \in CascadeIds : CallGetForumRepliesByTopic(t)
CascadeRepliesRoute ==
    \E u \in {NoUser, Principal(2, "member")}, t \in CascadeIds : GetForumReplies(u, t)

NextCascade ==
    \/ CascadeCreate
    \/ CascadeUpdate
    \/ CascadeDelete
    \/ CascadeReplies
    \/ CascadeRepliesRoute

SpecCascade == Init /\ [][NextCascade]_vars

\* --- SpecReads: creates, updates and deletes followed by list and point
\* reads. Forum replies have no getAll, site settings no get by id, and
\* users, forum replies and site settings no GET by id route.
MaxReads == 2
ReadIds == 1..MaxReads
ListKinds == Kinds \ {"forumReply"}
GetKinds == Kinds \ {"siteSetting"}
RouteKinds == {"event", "study", "post", "forumTopic"}
ReadUpdates(k) == IF k = "event" THEN {[title |-> "b"], [id |-> 2]} ELSE RepoUpdates(k)

ReadsCreate ==
    /\ Created < MaxReads
    /\ \E k \in Kinds, t \in Times : CallCreate(k, RepoFields(k), t)
ReadsUpdate ==
    \E k \in Kinds, i \in ReadIds, t \in Times :
        \E f \in ReadUpdates(k) : CallUpdate(k, i, f, t)
ReadsDelete == \E k \in OwnedKinds, i \in ReadIds : CallDelete(k, i)
ReadsGetAll == \E k \in ListKinds : CallGetAll(k)
ReadsGet == \E k \in GetKinds, i \in ReadIds : CallGet(k, i)
ReadsGetOne == \E k \in RouteKinds, i \in ReadIds : GetOne(k, NoUser, i)

NextReads ==
    \/ ReadsCreate
    \/ ReadsUpdate
    \/ ReadsDelete
    \/ ReadsGetAll
    \/ ReadsGet
    \/ ReadsGetOne

SpecReads == Init /\ [][NextReads]_vars

\* ================================================================ claims
\* The request req' answered by a step, read against the store before the step.
Mutation(r) == r.method \in {"PATCH", "DELETE"} /\ r.kind \in OwnedKinds
Live(k, id) == MapHas(Data(k), id)
Owns(k, id, user) == Live(k, id) /\ Data(k)[id][OwnerField(k)] = user.id

\* C1 -- Ownership gate: a PATCH or DELETE on an owned kind by an authenticated
\* principal that is neither admin nor the stored owner of the target is
\* answered 403 when the target is live and 404 when it is not (never 200),
\* and leaves every collection and counter as it was.
C1_OwnershipGate ==
    [][(/\ Mutation(req')
        /\ req'.user.authenticated
        /\ req'.user.role /= "admin"
        /\ ~Owns(req'.kind, req'.id, req'.user))
       => /\ res'.status = IF Live(req'.kind, req'.id) THEN 403 ELSE 404
          /\ repo' = repo]_vars

C1_Witness ==
    /\ req.method = "PATCH" /\ req.kind = "event" /\ res.status = 403
    /\ req.user = Principal(3, "member")
    /\ Live("event", req.id) /\ eventsData[req.id].createdBy = 2

\* C2 -- Owner-or-admin is sufficient: a PATCH or DELETE on a live owned record
\* by its owner or by an admin is answered 200; after the DELETE the id is not
\* live; after the PATCH the stored record is the one returned and carries every
\* field of the body; an admin's PATCH of the title of another user's event
\* returns the event with the new title and the same id, createdAt and createdBy.
C2_OwnerOrAdmin ==
    [][\A k \in OwnedKinds :
          (Mutation(req') /\ req'.kind = k /\ req'.user.authenticated /\ Live(k, req'.id)
           /\ (Owns(k, req'.id, req'.user) \/ req'.user.role = "admin"))
          => /\ res'.status = 200
             /\ req'.method = "DELETE" => ~MapHas(Data(k)', req'.id)
             /\ req'.method = "PATCH" =>
                   /\ MapHas(Data(k)', req'.id)
                   /\ Data(k)'[req'.id] = res'.body
                   /\ \A b \in PatchBodies(k), t \in Times :
                         PatchOwned(k, req'.user, req'.id, b, t)
                         => \A f \in DOMAIN b : Data(k)'[req'.id][f] = b[f]
                   /\ (/\ k = "event" /\ req'.user.role = "admin"
                       /\ ~Owns(k, req'.id, req'.user)
                       /\ \E t \in Times :
                             PatchOwned(k, req'.user, req'.id, [title |-> "b"], t))
                      => res'.body = [eventsData[req'.id] EXCEPT !.title = "b"]]_vars

C2_Witness ==
    /\ req.method = "PATCH" /\ req.kind = "event" /\ res.status = 200
    /\ req.user = Principal(1, "admin")
    /\ Live("event", req.id)
    /\ eventsData[req.id].createdBy = 2 /\ eventsData[req.id].title = "b"
    /\ res.body = eventsData[req.id]

\* C3 -- Gate A: a create, update or delete request on an owned kind without an
\* authenticated principal is answered 401 and changes no collection and no
\* id counter, whether or not the target id is live.
C3_GateA ==
    [][(/\ req'.method \in {"POST", "PATCH", "DELETE"}
        /\ req'.kind \in OwnedKinds
        /\ ~req'.user.authenticated)
       => (res'.status = 401 /\ repo' = repo)]_vars

C3_Witness ==
    /\ req.method = "DELETE" /\ req.kind = "study" /\ ~req.user.authenticated
    /\ res.status = 401
    /\ Live("study", req.id)

\* C4 -- A request without an authenticated principal to any gated operation
\* (the isAuthenticated-gated and the isAdmin-gated routes) is answered 401.
C4_UnauthenticatedIs401 ==
    (req.method \in {"GET", "POST", "PATCH", "DELETE", "BATCH"} /\ ~req.user.authenticated)
    => res.status = 401

\* C5 (as stated) -- a PATCH or DELETE on an owned kind whose target id is not
\* live is answered 404 for every requester, authenticated or not.
C5_NotFoundRegardlessOfAuth ==
    [][(Mutation(req') /\ ~Live(req'.kind, req'.id)) => res'.status = 404]_vars

\* C5 (amended) -- a PATCH or DELETE on an owned kind whose target id is not live
\* is answered 404 for every authenticated requester, whatever their identity
\* or role (the unauthenticated requester was rejected before the lookup).
C5_NotFoundForAuthenticated ==
    [][(Mutation(req') /\ req'.user.authenticated /\ ~Live(req'.kind, req'.id))
       => res'.status = 404]_vars

C5_Witness ==
    /\ req.method = "PATCH" /\ req.kind = "forumTopic" /\ res.status = 404
    /\ req.user = Principal(1, "admin")
    /\ ~Live("forumTopic", req.id)
    /\ 1 \in removed["forumTopic"]

\* C6 (as stated) -- on every route, a request that names a target resource and
\* is answered 403 names a resource that is live at that moment.
C6_ForbiddenOnlyIfLive ==
    [][(res'.status = 403 /\ req'.method \in {"PATCH", "DELETE"})
       => Live(req'.kind, req'.id)]_vars

\* C6 (amended) -- on the PATCH and DELETE routes of the owned kinds, a request
\* answered 403 names a resource that is live at that moment.
C6_ForbiddenOnlyIfLiveOwned ==
    [][(res'.status = 403 /\ Mutation(req')) => Live(req'.kind, req'.id)]_vars

C6_Witness ==
    /\ req.method = "DELETE" /\ req.kind = "forumReply" /\ res.status = 403
    /\ Live("forumReply", req.id)

\* C7 -- Password never leaks: no element of a 200 response of GET /users and
\* no 200 response of PATCH /users/:id has a password field.
C7_PasswordNeverLeaks ==
    (req.kind = "user" /\ res.status = 200)
    => /\ req.method = "GET" => \A i \in DOMAIN res.body : "password" \notin DOMAIN res.body[i]
       /\ req.method = "PATCH" => "password" \notin DOMAIN res.body

C7_Witness ==
    /\ req.kind = "user" /\ req.method = "GET" /\ res.status = 200
    /\ Len(res.body) = 2
    /\ \A i \in DOMAIN usersData : "password" \in DOMAIN usersData[i]

\* C8 -- PATCH /users/:id never changes a stored password: whatever the body,
\* every user's password after the request is the one before it, and every
\* user but the target is unchanged.
C8_PatchKeepsPassword ==
    [][(req'.method = "PATCH" /\ req'.kind = "user")
       => /\ DOMAIN usersData' = DOMAIN usersData
          /\ \A i \in DOMAIN usersData :
                /\ usersData'[i].password = usersData[i].password
                /\ i /= req'.id => usersData'[i] = usersData[i]]_vars

C8_Witness ==
    /\ req.method = "PATCH" /\ req.kind = "user" /\ res.status = 200
    /\ Cardinality(DOMAIN usersData) = 2
    /\ usersData[req.id].role = "admin" /\ usersData[req.id].password = "h1"

\* C9 -- Identity uniqueness: the ids returned by the creates of one kind are
\* positive and strictly increasing in call order (hence pairwise distinct),
\* and a create of one kind leaves the counters and ids of the other kinds alone.
C9_IdentityUniqueness ==
    /\ [](\A k \in Kinds : \A i, j \in DOMAIN returned[k] :
             /\ returned[k][i] > 0
             /\ i < j => returned[k][i] < returned[k][j])
    /\ [][\A k \in Kinds : returned'[k] /= returned[k] =>
             \A j \in Kinds \ {k} : Counter(j)' = Counter(j) /\ returned'[j] = returned[j]]_vars

C9_Witness == returned["siteSetting"] = <<1, 2>>

\* C10 -- Ids are never reused and a deleted entity never comes back: an id
\* for which delete returned true is never live again, and every create
\* returns an id greater than every id returned before, deleted or not.
C10_NoReuse ==
    /\ [](\A k \in Kinds : \A i \in removed[k] : ~Live(k, i))
    /\ [][\A k \in Kinds : returned'[k] /= returned[k] =>
             \A n \in DOMAIN returned[k] :
                returned'[k][Len(returned'[k])] > returned[k][n]]_vars
    /\ [][\A k \in Kinds : removed[k] \subseteq removed'[k]]_vars

C10_Witness ==
    /\ returned["post"] = <<1, 2>>
    /\ 1 \in removed["post"]
    /\ DOMAIN postsData = {2}

\* The step stored and returned, under key i of kind k, the record that was
\* there with the fields of P replaced, the fields in exempt aside, and
\* changed no other record of the collection.
Merged(k, i, P, exempt) ==
    /\ DOMAIN Data(k)' = DOMAIN Data(k)
    /\ DOMAIN Data(k)'[i] = DOMAIN Data(k)[i]
    /\ \A g \in (DOMAIN Data(k)[i]) \ exempt :
          Data(k)'[i][g] = IF g \in DOMAIN P THEN P[g] ELSE Data(k)[i][g]
    /\ res'.body.found /\ res'.body.value = Data(k)'[i]
    /\ \A j \in (DOMAIN Data(k)) \ {i} : Data(k)'[j] = Data(k)[j]

\* C11 (as stated) -- Update preserves unspecified fields: for every live
\* entity E of every kind and every partial update P over E's fields,
\* update(E.id, P) stores and returns E with exactly the fields of P replaced,
\* and changes no other record.
C11_UpdatePreservesFields ==
    [][\A k \in Kinds :
          (req'.method = "update" /\ req'.kind = k /\ Live(k, req'.id))
          => \A f \in MergeUpdates(k), t \in UpdateTimes :
                CallUpdate(k, req'.id, f, t) => Merged(k, req'.id, f, {})]_vars

\* C11 (amended) -- the same for every kind but SiteSetting; an update of a
\* SiteSetting does the same on every field but updatedAt, which it sets to
\* the time of the call.
C11_UpdatePreservesFieldsButStamp ==
    [][\A k \in Kinds :
          (req'.method = "update" /\ req'.kind = k /\ Live(k, req'.id))
          => \A f \in MergeUpdates(k), t \in UpdateTimes :
                CallUpdate(k, req'.id, f, t)
                => IF k = "siteSetting"
                   THEN /\ Merged(k, req'.id, f, {"updatedAt"})
                        /\ siteSettingsData'[req'.id].updatedAt = t
                   ELSE Merged(k, req'.id, f, {})]_vars

C11_Witness ==
    /\ req.method = "update" /\ req.kind = "study" /\ res.body.found
    /\ DOMAIN studiesData = {1, 2}
    /\ studiesData[req.id].title = "b" /\ studiesData[req.id].authorId = 2
    /\ studiesData[req.id].createdAt = 1
    /\ studiesData[3 - req.id].title = "a"

\* C12 -- Partial update never changes identity or creation timestamp: for
\* every kind but SiteSetting, a record that is updated, by update* or by a
\* PATCH route whatever the JSON body, is stored afterwards with the id and
\* the createdAt it had before.
C12_UpdateKeepsIdAndCreatedAt ==
    [][\A k \in PatchedKinds :
          (req'.method \in {"update", "PATCH"} /\ req'.kind = k /\ Live(k, req'.id))
          => /\ MapHas(Data(k)', req'.id)
             /\ Data(k)'[req'.id].id = Data(k)[req'.id].id
             /\ Data(k)'[req'.id].createdAt = Data(k)[req'.id].createdAt]_vars

\* C13 -- Delete idempotence: for every kind with a delete operation and
\* every id, delete(id) returns true exactly when the id is live, removes
\* exactly that record and nothing else; a second delete(id) right after it
\* returns false and changes nothing.
C13_DeleteIdempotent ==
    [][\A k \in OwnedKinds :
          (req'.method = "delete" /\ req'.kind = k)
          => /\ res'.body.deleted = Live(k, req'.id)
             /\ Data(k)' = [j \in (DOMAIN Data(k)) \ {req'.id} |-> Data(k)[j]]
             /\ \A o \in Kinds \ {k} : Data(o)' = Data(o)
             /\ counters' = counters
             /\ StorageDelete(Data(k)', req'.id) = [data |-> Data(k)', result |-> FALSE]
             /\ (req.method = "delete" /\ req.kind = k /\ req.id = req'.id)
                => (res'.body.deleted = FALSE /\ repo' = repo)]_vars

C13_Witness ==
    /\ req.method = "delete" /\ req.kind = "forumReply" /\ req.id = 1
    /\ res.body.deleted = FALSE
    /\ 1 \in removed["forumReply"]
    /\ DOMAIN forumRepliesData = {2}

UpcomingIds(data, now) == {i \in DOMAIN data : data[i].startTime > now}

\* C15 -- Upcoming events: for every store, instant now and count (5 when
\* omitted), getUpcomingEvents(count) returns the first count of the live
\* events that start strictly after now, in ascending order of startTime:
\* each element is such an event and none occurs twice, no event left out
\* starts before one returned, nothing at or before now appears, and the
\* length is count or the number of such events, whichever is smaller.
C15_UpcomingEvents ==
    [][req'.method = "UPCOMING"
       => \A q \in UpcomingQueries :
             GetUpcoming(req'.user, q.count, q.now)
             => LET R == res'.body
                    c == q.count
                    t == q.now
                    up == UpcomingIds(eventsData, t)
                    rest == {i \in up : \A n \in DOMAIN R : R[n] /= eventsData[i]}
                IN /\ res'.status = 200
                   /\ \A n \in DOMAIN R : \E i \in up : R[n] = eventsData[i]
                   /\ \A n \in DOMAIN R : R[n].startTime > t
                   /\ \A m, n \in DOMAIN R :
                         m < n => (R[m].startTime <= R[n].startTime /\ R[m] /= R[n])
                   /\ \A i \in rest, n \in DOMAIN R : R[n].startTime <= eventsData[i].startTime
                   /\ Len(R) <= Limit(c)
                   /\ Len(R) = IF Cardinality(up) < Limit(c) THEN Cardinality(up) ELSE Limit(c)
                   /\ repo' = repo]_vars

C15_Witness ==
    /\ req.method = "UPCOMING"
    /\ DOMAIN eventsData = 1..4
    /\ [i \in 1..4 |-> eventsData[i].startTime] = <<2, 4, 0, 3>>
    /\ res.body = <<eventsData[1], eventsData[4], eventsData[2]>>

\* The default count cuts a longer list: six events are upcoming and five
\* are returned.
C15_WitnessDefault ==
    /\ req.method = "UPCOMING"
    /\ Cardinality(UpcomingIds(eventsData, 1)) = 6
    /\ Len(res.body) = UpcomingDefault

\* The ids of the settings of data that have the key.
WithKey(data, key) == {i \in DOMAIN data : data[i].key = key}
\* The elements of a batch that are reached: those before the first null.
AppliedItems(items) ==
    LET nulls == {j \in DOMAIN items : items[j] = JsonNull}
    IN IF nulls = {} THEN items
       ELSE SubSeq(items, 1, (CHOOSE j \in nulls : \A n \in nulls : j <= n) - 1)
\* The positions of items whose element has the key.
Keyed(items, key) == {j \in DOMAIN items : ~NoKey(items[j]) /\ items[j].key = key}
LastKeyed(items, key) == CHOOSE j \in Keyed(items, key) : \A n \in Keyed(items, key) : n <= j

\* After the step exactly one setting has the key; it holds the value, the
\* updater and the instant given, under the id the key had before the step
\* or, if it had none, under an id never used before.
KeyUpserted(key, value, by, now) ==
    /\ Cardinality(WithKey(siteSettingsData', key)) = 1
    /\ \A i \in WithKey(siteSettingsData', key) :
          /\ siteSettingsData'[i] =
                [id |-> i, key |-> key, value |-> value, updatedBy |-> by, updatedAt |-> now]
          /\ IF WithKey(siteSettingsData, key) /= {}
             THEN WithKey(siteSettingsData, key) = {i}
             ELSE i >= siteSettingIdCounter
\* The step left the settings of the key as they were.
KeyUntouched(key) ==
    /\ WithKey(siteSettingsData', key) = WithKey(siteSettingsData, key)
    /\ \A i \in WithKey(siteSettingsData, key) : siteSettingsData'[i] = siteSettingsData[i]
\* The step upserted, in order, the keyed elements of items and nothing else.
ItemsUpserted(items, by, now) ==
    /\ \A key \in SettingKeys :
          IF Keyed(items, key) /= {}
          THEN KeyUpserted(key, Field(items[LastKeyed(items, key)], "value"), by, now)
          ELSE KeyUntouched(key)
    /\ siteSettingIdCounter' = siteSettingIdCounter
          + Cardinality({key \in SettingKeys :
                           Keyed(items, key) /= {} /\ WithKey(siteSettingsData, key) = {}})
    /\ \A k \in Kinds \ {"siteSetting"} : Data(k)' = Data(k) /\ Counter(k)' = Counter(k)

\* C16 -- Settings upsert is key-idempotent and SiteSetting.key is unique:
\* after any sequence of POST /site-settings and batch requests at most one
\* live setting exists per key; each upsert of a key leaves its one record
\* with the value just sent, under the id assigned at first creation, and a
\* request leaves the settings of the keys it does not upsert as they were.
C16_SettingsKeyUnique ==
    /\ [](\A i, j \in DOMAIN siteSettingsData :
             siteSettingsData[i].key = siteSettingsData[j].key => i = j)
    /\ [][(req'.method = "POST" /\ req'.kind = "siteSetting" /\ res'.status \in {200, 201})
          => \A c \in SettingsCalls, b \in SettingsBodies :
                PostSiteSetting(c.user, b, c.now) => ItemsUpserted(<<b>>, c.user.id, c.now)]_vars
    /\ [][(req'.method = "BATCH" /\ res'.status \in {200, 500})
          => \A c \in SettingsCalls, b \in SettingsBatchBodies :
                PostSiteSettingsBatch(c.user, b, c.now)
                => ItemsUpserted(AppliedItems(b.items), c.user.id, c.now)]_vars

C16_Witness ==
    /\ req.method = "POST" /\ req.kind = "siteSetting" /\ res.status = 200
    /\ returned["siteSetting"] = <<1, 2>>
    /\ siteSettingsData[1].key = "a" /\ siteSettingsData[1].value = "2"
    /\ siteSettingsData[1].updatedAt = 2
    /\ siteSettingsData[2].key = "b" /\ siteSettingsData[2].updatedAt = 1

\* C17 -- username is unique among live users: after any sequence of
\* createUser calls and admin PATCH /users/:id requests, whose body may name
\* a username, no two live user records have the same username.
C17_UsernameUnique ==
    \A i, j \in DOMAIN usersData : usersData[i].username = usersData[j].username => i = j

\* C18 -- Batch settings count: an admin POST /site-settings/batch with an
\* array body never fails on an element that has no key: it answers 200 with
\* count equal to the number of elements that have a key, and has upserted
\* exactly those, with updatedBy the acting principal.
C18_BatchCount ==
    [][(req'.method = "BATCH" /\ isAdmin(req'.user))
       => \A c \in SettingsCalls, b \in SettingsBatchBodies :
             (b.isArray /\ PostSiteSettingsBatch(c.user, b, c.now))
             => /\ res'.status = 200
                /\ res'.body.count =
                      Cardinality({j \in DOMAIN b.items : ~NoKey(b.items[j])})
                /\ \A key \in SettingKeys :
                      Keyed(b.items, key) /= {}
                      => KeyUpserted(key, Field(b.items[LastKeyed(b.items, key)], "value"),
                                     c.user.id, c.now)]_vars

\* C19 -- Batch upsert is not atomic: when the handler answers 500 because
\* element i failed, the upserts of the elements before i are in the store,
\* no element after i has been applied, and nothing is rolled back.
C19_BatchNotAtomic ==
    [][(req'.method = "BATCH" /\ res'.status = 500)
       => \A c \in SettingsCalls, b \in SettingsBatchBodies :
             PostSiteSettingsBatch(c.user, b, c.now)
             => /\ AppliedItems(b.items) /= b.items
                /\ ItemsUpserted(AppliedItems(b.items), c.user.id, c.now)]_vars

C19_Witness ==
    /\ req.method = "BATCH" /\ res.status = 500
    /\ req.user = Principal(4, "admin")
    /\ returned["siteSetting"] = <<1>>
    /\ siteSettingsData[1] =
          [id |-> 1, key |-> "a", value |-> "2", updatedBy |-> 4, updatedAt |-> 2]

\* C20 -- Single settings upsert: an admin POST /site-settings with key k
\* answers 201 and creates a record when no live setting has key k; answers
\* 200 and updates the existing record in place (same id, the new value,
\* updatedBy the acting principal, updatedAt the current time) when one
\* exists; a body without a key answers 400 and changes nothing.
C20_SingleUpsert ==
    [][(req'.method = "POST" /\ req'.kind = "siteSetting" /\ isAdmin(req'.user))
       => \A c \in SettingsCalls, b \in SettingsBodies :
             PostSiteSetting(c.user, b, c.now)
             => IF NoKey(b)
                THEN res'.status = 400 /\ repo' = repo
                ELSE LET old == WithKey(siteSettingsData, b.key)
                         i == IF old = {} THEN siteSettingIdCounter ELSE CHOOSE n \in old : TRUE
                         record == [id |-> i, key |-> b.key, value |-> Field(b, "value"),
                                    updatedBy |-> c.user.id, updatedAt |-> c.now]
                     IN /\ res'.status = IF old = {} THEN 201 ELSE 200
                        /\ res'.body = record
                        /\ siteSettingsData' = MapSet(siteSettingsData, i, record)
                        /\ siteSettingIdCounter' =
                              IF old = {} THEN siteSettingIdCounter + 1 ELSE siteSettingIdCounter]_vars

C20_Witness ==
    /\ req.method = "POST" /\ req.kind = "siteSetting" /\ res.status = 200
    /\ req.user = Principal(4, "admin")
    /\ returned["siteSetting"] = <<1>>
    /\ res.body = [id |-> 1, key |-> "a", value |-> "2", updatedBy |-> 4, updatedAt |-> 2]
    /\ siteSettingsData[1] = res.body

\* The step created, from input f at instant t, a record of kind k: returned
\* and stored under the counter value, with that id, the timestamp t, and
\* the other fields of f.
Stamped(k, f, t) ==
    /\ res'.body.id = Counter(k)
    /\ res'.body[StampField(k)] = t
    /\ \A g \in (DOMAIN f) \ {"id", StampField(k)} : res'.body[g] = f[g]
    /\ MapHas(Data(k)', Counter(k)) /\ Data(k)'[Counter(k)] = res'.body
    /\ Counter(k)' = Counter(k) + 1

\* C21 -- Every create sets the timestamp server-side: for every kind the
\* record returned and stored by create has createdAt (updatedAt for a
\* SiteSetting) equal to the clock at the call and id equal to the counter
\* value, even when the input itself names id or the timestamp field; the
\* same holds for the record a POST route creates.
C21_CreateStampsServerSide ==
    [][\A k \in Kinds :
          /\ (req'.method = "create" /\ req'.kind = k)
             => \A f \in StampFields(k), t \in UpdateTimes :
                   CallCreate(k, f, t) => Stamped(k, f, t)
          /\ (req'.method = "POST" /\ req'.kind = k /\ res'.status = 201)
             => \A b \in CreateBodies(k), t \in UpdateTimes :
                   PostOwned(k, req'.user, b, t) => Stamped(k, Parse(k, b), t)]_vars

C21_Witness ==
    /\ req.method = "create" /\ req.kind = "siteSetting" /\ req.id = 2
    /\ res.body.id = 2 /\ res.body.updatedAt = 2
    /\ siteSettingsData[2] = res.body
    /\ siteSettingsData[1].updatedAt = 1

\* The tasks on the event loop, waiting or queued.
Tasks == loop.macro \cup {loop.micro[n] : n \in DOMAIN loop.micro}

\* C22 -- Request atomicity: with several requests in flight, no other
\* request's repository operation runs between a handler's check and its
\* mutation: what a handler read at its check is still what the store holds
\* when it goes on, so (a) a DELETE that passed the existence check finds
\* the record, delete returns true and the fallback 404 is never sent, and
\* (b) two upserts of the same new key never both create a record.
C22_RequestAtomicity ==
    /\ \A task \in Tasks :
          /\ task.pc = "checked"
             => /\ task.local.found = Live(task.kind, task.id)
                /\ task.local.found => Data(task.kind)[task.id] = task.local.existing
          /\ task.pc = "deleted" => task.local.result
          /\ task.pc = "looked"
             => /\ task.local.found = (WithKey(siteSettingsData, task.body.key) /= {})
                /\ task.local.found
                   => (/\ MapHas(siteSettingsData, task.local.existing.id)
                       /\ siteSettingsData[task.local.existing.id] = task.local.existing)
          /\ task.pc = "written"
             => siteSettingsData[task.local.result.id] = task.local.result
    /\ \A i, j \in DOMAIN siteSettingsData :
          siteSettingsData[i].key = siteSettingsData[j].key => i = j

C22_Witness ==
    /\ Len(loop.micro) = 1
    /\ Head(loop.micro).route = "DELETE" /\ Head(loop.micro).pc = "checked"
    /\ Head(loop.micro).local.found
    /\ \E task \in loop.macro :
          /\ task.route = "DELETE" /\ task.id = Head(loop.micro).id
          /\ task.user /= Head(loop.micro).user

\* The routes behind isAdmin.
AdminRoute(r) ==
    \/ r.kind = "user" /\ r.method \in {"GET", "PATCH"}
    \/ r.kind = "siteSetting" /\ r.method \in {"POST", "BATCH"}

\* C23 -- Admin-only operations: GET /users, PATCH /users/:id, POST
\* /site-settings and POST /site-settings/batch sent by an authenticated
\* principal whose role is not admin are answered 403 and leave the users
\* and the site settings as they were; the user list is sent only to an
\* admin.
C23_AdminOnly ==
    [][/\ (AdminRoute(req') /\ req'.user.authenticated /\ req'.user.role /= "admin")
          => /\ res'.status = 403 /\ res'.body = Message("Forbidden")
             /\ usersData' = usersData /\ siteSettingsData' = siteSettingsData
             /\ userIdCounter' = userIdCounter
             /\ siteSettingIdCounter' = siteSettingIdCounter
       /\ (req'.method = "GET" /\ req'.kind = "user" /\ res'.status = 200)
          => (req'.user.authenticated /\ req'.user.role = "admin")]_vars

C23_Witness ==
    /\ req.method = "GET" /\ req.kind = "user"
    /\ req.user = Principal(2, "member")
    /\ res.status = 403
    /\ DOMAIN usersData = {1}

\* C24 -- Rejected requests have no effect: a request answered 400, 403 or
\* 404 leaves every collection and every id counter as it was. A create that
\* fails validation therefore takes no id: each counter stays one above the
\* number of successful creates of its kind, and a successful POST gets that
\* number plus one as its id.
C24_RejectedNoEffect ==
    /\ [](\A k \in Kinds : Counter(k) = Len(returned[k]) + 1)
    /\ [][/\ res'.status \in {400, 403, 404} => UNCHANGED <<maps, counters>>
          /\ \A k \in OwnedKinds :
                 (req'.method = "POST" /\ req'.kind = k /\ res'.status = 201)
                 => res'.body.id = Len(returned[k]) + 1]_vars

\* A POST rejected by validation after one event was created: the counter
\* still names the id after that event's.
C24_Witness ==
    /\ req.method = "POST" /\ req.kind = "event"
    /\ res.status = 400
    /\ DOMAIN eventsData = {1}
    /\ eventIdCounter = 2

\* C25 -- No cascade, no cross-collection effect: a repository operation on
\* one kind leaves the collections and the counters of every other kind as
\* they were. Deleting a forum topic removes no forum reply: the replies whose
\* topicId names the deleted topic stay live and getForumRepliesByTopic still
\* returns them.
C25_NoCascade ==
    /\ [][/\ \A k \in Kinds :
               (req'.kind = k /\ req'.method \in {"create", "update", "delete"})
               => \A o \in Kinds \ {k} : Data(o)' = Data(o) /\ Counter(o)' = Counter(o)
          /\ (req'.kind = "forumTopic" /\ req'.method = "delete")
             => forumRepliesData' = forumRepliesData]_vars
    /\ [](req.method = "getForumRepliesByTopic"
          => \A i \in DOMAIN forumRepliesData :
                 forumRepliesData[i].topicId = req.id
                 => \E n \in DOMAIN res.body : res.body[n] = forumRepliesData[i])

\* Topic 1 was deleted, its reply is still live and is what the read returns.
C25_Witness ==
    /\ req.method = "getForumRepliesByTopic" /\ req.id = 1
    /\ 1 \in removed["forumTopic"]
    /\ DOMAIN forumRepliesData = {1} /\ forumRepliesData[1].topicId = 1
    /\ res.body = <<forumRepliesData[1]>>

\* The replies a lookup by topic t has to return.
RepliesOf(t) == {i \in DOMAIN forumRepliesData : forumRepliesData[i].topicId = t}

\* C26 -- getForumRepliesByTopic(t), called directly or through
\* GET /forum/topics/:topicId/replies, returns exactly the live replies whose
\* topicId equals t, each once, for every t (also the id of a topic that never
\* existed or was deleted), and changes nothing in the store.
C26_RepliesByTopic ==
    [][req'.method \in {"getForumRepliesByTopic", "REPLIES"}
       => /\ Len(res'.body) = Cardinality(RepliesOf(req'.id))
          /\ {res'.body[n] : n \in DOMAIN res'.body}
                = {forumRepliesData[i] : i \in RepliesOf(req'.id)}
          /\ req'.method = "REPLIES" => res'.status = 200
          /\ UNCHANGED <<maps, counters>>]_vars

\* Two live replies under different topics, none of which exists; the route
\* returns only the reply of the topic asked for.
C26_Witness ==
    /\ req.method = "REPLIES" /\ req.id = 2
    /\ DOMAIN forumRepliesData = {1, 2} /\ forumTopicsData = EmptyMap
    /\ forumRepliesData[1].topicId = 1
    /\ res.body = <<forumRepliesData[2]>>

\* The ids created and not deleted so far, from the history of the calls.
CreatedIds(k) == {returned[k][n] : n \in DOMAIN returned[k]}
LiveIds(k) == CreatedIds(k) \ removed[k]

\* C27 -- List and point reads agree with the history. The live keys of each
\* collection are the ids created and not deleted; a create and an update
\* leave under the id the record they return, which is therefore the latest
\* form; list() returns exactly the stored records, each once; get(id)
\* returns the stored record for a live id and nothing otherwise; GET by id
\* answers 200 with that record or 404; no read changes the store.
C27_ReadsAgree ==
    /\ [](\A k \in Kinds : DOMAIN Data(k) = LiveIds(k))
    /\ [][\A k \in Kinds : req'.kind = k =>
            /\ req'.method = "create" => Data(k)'[req'.id] = res'.body
            /\ (req'.method = "update" /\ res'.body.found)
               => Data(k)'[req'.id] = res'.body.value
            /\ req'.method = "getAll"
               => /\ Len(res'.body) = Cardinality(LiveIds(k))
                  /\ {res'.body[n] : n \in DOMAIN res'.body} = {Data(k)[i] : i \in LiveIds(k)}
                  /\ UNCHANGED <<maps, counters>>
            /\ req'.method = "get"
               => /\ res'.body.found = (req'.id \in LiveIds(k))
                  /\ res'.body.found => res'.body.value = Data(k)[req'.id]
                  /\ UNCHANGED <<maps, counters>>
            /\ req'.method = "GETBYID"
               => /\ res'.status = IF req'.id \in LiveIds(k) THEN 200 ELSE 404
                  /\ res'.status = 200 => res'.body = Data(k)[req'.id]
                  /\ UNCHANGED <<maps, counters>>]_vars

\* Event 1 was created and deleted, event 2 is live: the list holds event 2
\* only.
C27_Witness ==
    /\ req.method = "getAll" /\ req.kind = "event"
    /\ returned["event"] = <<1, 2>> /\ removed["event"] = {1}
    /\ res.body = <<eventsData[2]>>

\* GET by id of a deleted event.
C27_WitnessGone ==
    /\ req.method = "GETBYID" /\ req.id = 1 /\ res.status = 404
    /\ 1 \in removed["event"]

\* C28 -- Key/id agreement: in every reachable state and every collection,
\* the record stored under map key i has id i, also after PATCH requests
\* whose JSON body update* merges into the record.
C28_KeyIdAgreement ==
    \A k \in Kinds : \A i \in DOMAIN Data(k) : Data(k)[i].id = i

\* C29 -- Owner-field integrity: the owner field (createdBy / authorId) of a
\* live record is the id of the principal whose POST created it unless an
\* admin changed it: a POST of a non-admin principal creates a record owned
\* by that principal, and no request of a non-admin principal changes the
\* owner field of a stored record.
C29_OwnerIntegrity ==
    [][\A k \in OwnedKinds : (req'.kind = k /\ req'.user.role /= "admin") =>
          /\ (req'.method = "POST" /\ res'.status = 201)
             => res'.body[OwnerField(k)] = req'.user.id
          /\ \A i \in (DOMAIN Data(k)) \cap (DOMAIN Data(k)') :
                 Data(k)'[i][OwnerField(k)] = Data(k)[i][OwnerField(k)]]_vars

\* C30 -- Role changes need an admin: the role of a stored user changes only
\* in a step that answers PATCH /users/:id for that user, sent by a principal
\* whose role is admin; a request of a non-admin principal changes no role.
C30_RoleChangeNeedsAdmin ==
    [][\A i \in (DOMAIN usersData) \cap (DOMAIN usersData') :
          usersData'[i].role /= usersData[i].role
          => /\ req'.method = "PATCH" /\ req'.kind = "user" /\ req'.id = i
             /\ req'.user.authenticated /\ req'.user.role = "admin"
             /\ res'.status = 200]_vars

\* An admin has made member 1 an admin.
C30_Witness ==
    /\ req.method = "PATCH" /\ req.kind = "user" /\ req.id = 1
    /\ req.user = Principal(1, "admin")
    /\ res.status = 200
    /\ usersData[1].username = "u1" /\ usersData[1].role = "admin"

====
